---- MODULE Spec2Model ----
(***************************************************************************)
(* Model of check_efy.py: a polling loop that scrapes a seat table, sends  *)
(* text messages when the target session has seats, and sleeps a random    *)
(* number of minutes between polls.                                        *)
(*                                                                         *)
(* Text is modelled as a sequence of one-character strings so that         *)
(* str.strip(), re.match and the %-formatting can be computed as the code  *)
(* computes them.                                                          *)
(***************************************************************************)
EXTENDS Integers, Sequences, FiniteSets, TLC

(***************************************************************************)
(* Bounds of the model.                                                    *)
(***************************************************************************)
\* longest recipient list drawn from the command line
MaxRecipients == 2
\* most rows a fetched table holds
MaxRows == 2
\* draws of the random source are k/Scale for k in -MaxDraw..MaxDraw
MaxDraw == 4
Scale == 2

(***************************************************************************)
(* Text constants.                                                         *)
(***************************************************************************)
\* SESSION_ID = "UT Provo 04B"
SESSION_ID == <<"U","T"," ","P","r","o","v","o"," ","0","4","B">>
\* another session of the same page
OTHER_ID == <<"U","T"," ","P","r","o","v","o"," ","0","4","A">>
T_Date == <<"2","0","2","4","-","0","6","-","0","1">>
T_Dash == <<"-">>
T_Full == <<"F","u","l","l">>
T_full == <<"f","u","l","l">>
T_3 == <<"3">>
T_0 == <<"0">>
T_Empty == <<>>
\* cells as they come out of the HTML, with surrounding whitespace
T_FullPadded == <<" ","F","u","l","l","\n">>
T_SessionPadded == <<"\n"," ">> \o SESSION_ID \o <<" ">>

\* the fixed session-detail link of MSG_TEXT_MESSAGE
LINK == "https://efy.byu.edu/efy_session/10091862"

\* MSG_TEXT_MESSAGE, split at its %s conversion specifiers
MSG_TEXT_MESSAGE ==
  << [spec |-> TRUE,  lit |-> ""],
     [spec |-> FALSE, lit |-> " spots availible for session "],
     [spec |-> TRUE,  lit |-> ""],
     [spec |-> FALSE, lit |-> " at efy.Click here "],
     [spec |-> FALSE, lit |-> LINK],
     [spec |-> FALSE, lit |-> "."] >>

(***************************************************************************)
(* Python values of the result tuple.  spots is the int 0 or a str; both   *)
(* carry their str() form so that the two stay distinguishable.            *)
(***************************************************************************)
PyInt0 == [type |-> "int", repr |-> <<"0">>]
PyStr(t) == [type |-> "str", repr |-> t]

\* what isSiteAvailable hands back: a tuple, None, or an exception
Tuple(spots, available) ==
  [kind |-> "tuple", spots |-> spots, available |-> available, exc |-> ""]
ReturnsNone == [kind |-> "None", spots |-> PyInt0, available |-> FALSE, exc |-> ""]
Raises(e) == [kind |-> "raise", spots |-> PyInt0, available |-> FALSE, exc |-> e]
NoResult == [kind |-> "unset", spots |-> PyInt0, available |-> FALSE, exc |-> ""]

(***************************************************************************)
(* str.strip(): drop leading and trailing whitespace, keep inner spaces.   *)
(***************************************************************************)
Whitespace == {" ", "\n", "\t"}

RECURSIVE LStrip(_)
LStrip(t) ==
  IF t # <<>> /\ Head(t) \in Whitespace THEN LStrip(Tail(t)) ELSE t

RECURSIVE RStrip(_)
RStrip(t) ==
  IF t # <<>> /\ t[Len(t)] \in Whitespace
  THEN RStrip(SubSeq(t, 1, Len(t) - 1))
  ELSE t

Strip(t) == RStrip(LStrip(t))

\* cols = [ele.text.strip() for ele in cols]
StripCols(row) == [i \in 1..Len(row) |-> Strip(row[i])]

(***************************************************************************)
(* isSiteAvailable: the scan of the table rows.                            *)
(***************************************************************************)
\* the scan with "Full" compared without regard to case
RECURSIVE ScanRows_anycase(_, _)
ScanRows_anycase(rows, session_id) ==
  IF rows = <<>>
  THEN ReturnsNone
  ELSE LET cols == StripCols(Head(rows))
       IN IF Len(cols) < 4
          THEN Raises("IndexError")
          ELSE LET c_session_id == cols[1]
                   c_seats == cols[4]
               IN IF c_session_id = session_id
                  THEN IF c_seats \in {T_Full, T_full}
                       THEN Tuple(PyInt0, FALSE)
                       ELSE Tuple(PyStr(c_seats), TRUE)
                  ELSE ScanRows_anycase(Tail(rows), session_id)

RECURSIVE ScanRows(_, _)
ScanRows(rows, session_id) ==
  IF rows = <<>>
  THEN ReturnsNone
  ELSE LET cols == StripCols(Head(rows))
       IN IF Len(cols) < 4
          THEN Raises("IndexError")
          ELSE LET c_session_id == cols[1]
                   c_seats == cols[4]
               IN IF c_session_id = session_id
                  THEN IF c_seats = T_Full
                       THEN Tuple(PyInt0, FALSE)
                       ELSE Tuple(PyStr(c_seats), TRUE)
                  ELSE ScanRows(Tail(rows), session_id)

\* outcomes of urlopen and of the parse of the fetched document
FetchKinds == {"page", "notable", "ConnectionResetError", "URLError"}
Fetched(kind, rows) == [kind |-> kind, rows |-> rows]
NoFetch == [kind |-> "unset", rows |-> <<>>]

isSiteAvailable(f, session_id) ==
  CASE f.kind = "ConnectionResetError" -> Tuple(PyInt0, FALSE)
    [] f.kind = "URLError" -> Raises("URLError")
    [] f.kind = "notable" -> Raises("AttributeError")
    [] OTHER -> ScanRows(f.rows, session_id)

(***************************************************************************)
(* get_delay_mins: x is the draw in units of 1/Scale.                      *)
(***************************************************************************)
\* int(): truncation toward zero
PyInt(x) == IF x >= 0 THEN x \div Scale ELSE -((-x) \div Scale)

\* the delay without the clamp at 0
get_delay_mins_unclamped(x) == PyInt(x)

get_delay_mins(x) ==
  LET y == IF x < 0 THEN 0 ELSE x
  IN PyInt(y)

(***************************************************************************)
(* validate_e164: re.match(r"^\+[1-9]\d{1,14}$", recipient).               *)
(***************************************************************************)
Digit == {"0","1","2","3","4","5","6","7","8","9"}

\* ^\+[1-9]\d{1,14} followed by the very end of the text
FullMatch(t) ==
  /\ Len(t) >= 3
  /\ Len(t) <= 16
  /\ t[1] = "+"
  /\ t[2] \in Digit \ {"0"}
  /\ \A i \in 3..Len(t) : t[i] \in Digit

\* "$" matches at the end of the text and also just before a final newline
ReMatch(t) ==
  \/ FullMatch(t)
  \/ /\ t # <<>>
     /\ t[Len(t)] = "\n"
     /\ FullMatch(SubSeq(t, 1, Len(t) - 1))

\* TRUE when validate_e164 returns, FALSE when it raises ValueError
validate_e164(numbers) == \A i \in 1..Len(numbers) : ReMatch(numbers[i])

(***************************************************************************)
(* MSG_TEXT_MESSAGE % str(spots): the right operand is not a tuple, so it  *)
(* is the only argument of the format.                                     *)
(***************************************************************************)
RECURSIVE CountSpecs(_)
CountSpecs(fmt) ==
  IF fmt = <<>> THEN 0
  ELSE (IF Head(fmt).spec THEN 1 ELSE 0) + CountSpecs(Tail(fmt))

RECURSIVE Substitute(_, _)
Substitute(fmt, fargs) ==
  IF fmt = <<>> THEN <<>>
  ELSE IF Head(fmt).spec
       THEN <<[arg |-> TRUE, text |-> Head(fargs), lit |-> ""]>>
              \o Substitute(Tail(fmt), Tail(fargs))
       ELSE <<[arg |-> FALSE, text |-> <<>>, lit |-> Head(fmt).lit]>>
              \o Substitute(Tail(fmt), fargs)

PercentFormat(fmt, fargs) ==
  IF Len(fargs) # CountSpecs(fmt)
  THEN [ok |-> FALSE, body |-> <<>>]
  ELSE [ok |-> TRUE, body |-> Substitute(fmt, fargs)]

\* message = MSG_TEXT_MESSAGE % str(spots),  SESSION_ID
FormatMessage(spots) == PercentFormat(MSG_TEXT_MESSAGE, <<spots.repr>>)

(***************************************************************************)
(* Inputs: command-line numbers and fetched tables.                        *)
(***************************************************************************)
P_Valid == <<"+","1","6","1","7","5","5","5","1","2","1","2">>
P_NoPlus == <<"6","1","7","5","5","5","1","2","1","2">>
P_LeadingZero == <<"+","0","1","7","5","5","5","1","2","1","2">>
P_15Digits == <<"+","1","2","3","4","5","6","7","8","9","0","1","2","3","4","5">>
P_16Digits == P_15Digits \o <<"6">>
P_1Digit == <<"+","1">>
P_2Digits == <<"+","1","2">>
P_ExtraChar == P_Valid \o <<"x">>
P_ExtraNewline == P_Valid \o <<"\n">>
P_TwoNewlines == P_Valid \o <<"\n","\n">>
P_LetterInside == <<"+","1","6","1","7","a","5","5","1","2","1","2">>

PhoneStrings ==
  { P_Valid, P_NoPlus, P_LeadingZero, P_15Digits, P_16Digits, P_1Digit,
    P_2Digits, P_ExtraChar, P_ExtraNewline, P_TwoNewlines, P_LetterInside }

\* recipients: nargs='+', at least one; the lists drawn hold at most one
\* number other than P_Valid, at any position
RecipientLists ==
  { l \in UNION { [1..n -> PhoneStrings] : n \in 1..MaxRecipients } :
      Cardinality({ i \in 1..Len(l) : l[i] # P_Valid }) <= 1 }

\* --sender: a list when given, None when left out
SenderGiven(list) == [none |-> FALSE, list |-> list]
SenderNone == [none |-> TRUE, list |-> <<>>]
Senders == { SenderNone, SenderGiven(<<P_Valid>>), SenderGiven(<<P_NoPlus>>) }

SeatCells == { T_Full, T_full, T_3, T_0, T_Empty, T_FullPadded }

Rows ==
  { <<SESSION_ID, T_Date, T_Dash, c>> : c \in SeatCells }
    \cup { <<T_SessionPadded, T_Date, T_Dash, T_3>>,
           <<OTHER_ID, T_Date, T_Dash, T_3>>,
           <<OTHER_ID, T_Date>> }

Tables == UNION { [1..n -> Rows] : n \in 0..MaxRows }

Fetches ==
  { Fetched("page", t) : t \in Tables }
    \cup { Fetched(k, <<>>) : k \in FetchKinds \ {"page"} }

Draws == (-MaxDraw)..MaxDraw

(***************************************************************************)
(* State.                                                                  *)
(***************************************************************************)
VARIABLES
  recipients,   \* args.recipients
  sender,       \* args.sender
  state,        \* STARTUP, POLLING, NOTIFYING, DELAYING, TERMINATED
  exitStatus,   \* exit status of the process, NotExited while it runs
  uncaught,     \* the exception that ended the process, "" if none
  printed,      \* "Value error: ..." was printed
  interrupted,  \* a KeyboardInterrupt was delivered
  endedIn,      \* the state the process was in when it ended
  fetch,        \* f and rows of this cycle's poll (locals of
                \* isSiteAvailable, kept until the cycle ends)
  result,       \* what isSiteAvailable handed back in the last poll
  idx,          \* position of the for loop over recipients
  sent,         \* messages accepted by the delivery API in this cycle
  x,            \* the last draw of the random source, in 1/Scale
  delay_mins,   \* the delay of the cycle (0 until the first draw assigns it)
  sleeping,     \* inside delay_with_update_by_min
  slept         \* one-minute sleeps completed in this delay

vars == << recipients, sender, state, exitStatus, uncaught, printed,
           interrupted, endedIn, fetch, result, idx, sent, x, delay_mins,
           sleeping, slept >>

NotExited == -1

LoopStates == {"POLLING", "NOTIFYING", "DELAYING"}

Init ==
  /\ recipients \in RecipientLists
  /\ sender \in Senders
  /\ state = "STARTUP"
  /\ exitStatus = NotExited
  /\ uncaught = ""
  /\ printed = FALSE
  /\ interrupted = FALSE
  /\ endedIn = ""
  /\ fetch = NoFetch
  /\ result = NoResult
  /\ idx = 1
  /\ sent = <<>>
  /\ x = 0
  /\ delay_mins = 0
  /\ sleeping = FALSE
  /\ slept = 0

\* an exception no handler of main catches: traceback, exit status 1
Crash(e) ==
  /\ state' = "TERMINATED"
  /\ exitStatus' = 1
  /\ uncaught' = e
  /\ endedIn' = state

\* sys.exit(0)
Exit0 ==
  /\ state' = "TERMINATED"
  /\ exitStatus' = 0
  /\ endedIn' = state

(***************************************************************************)
(* main, lines 239-244: arguments, validation, client.                     *)
(***************************************************************************)
\* startup that validates the recipients and leaves the sender out
Startup_recipients_only ==
  /\ state = "STARTUP"
  /\ IF sender.none
     THEN /\ Crash("TypeError")
          /\ UNCHANGED printed
     ELSE IF ~validate_e164(recipients)
          THEN /\ Exit0
               /\ printed' = TRUE
               /\ UNCHANGED uncaught
          ELSE /\ state' = "POLLING"
               /\ UNCHANGED << exitStatus, uncaught, endedIn, printed >>
  /\ UNCHANGED << recipients, sender, interrupted, fetch, result, idx, sent,
                  x, delay_mins, sleeping, slept >>

Startup ==
  /\ state = "STARTUP"
  /\ IF sender.none
     THEN \* recipients + None
          /\ Crash("TypeError")
          /\ UNCHANGED printed
     ELSE IF ~validate_e164(recipients \o sender.list)
          THEN \* except ValueError: print, then sys.exit(0)
               /\ Exit0
               /\ printed' = TRUE
               /\ UNCHANGED uncaught
          ELSE /\ state' = "POLLING"
               /\ UNCHANGED << exitStatus, uncaught, endedIn, printed >>
  /\ UNCHANGED << recipients, sender, interrupted, fetch, result, idx, sent,
                  x, delay_mins, sleeping, slept >>

\* KeyboardInterrupt before the loop: only "except ValueError" is around it.
\* The interpreter ends with status 1, or re-raises SIGINT (status 130).
InterruptStartup ==
  /\ state = "STARTUP"
  /\ \E st \in {1, 130} :
       /\ state' = "TERMINATED"
       /\ exitStatus' = st
  /\ uncaught' = "KeyboardInterrupt"
  /\ endedIn' = state
  /\ interrupted' = TRUE
  /\ UNCHANGED << recipients, sender, printed, fetch, result, idx, sent, x,
                  delay_mins, sleeping, slept >>

(***************************************************************************)
(* main, line 248: (spots, available) = isSiteAvailable(SESSION_ID)        *)
(***************************************************************************)
\* the poll with the test of "available" left out: every tuple notifies
Poll_always_notify ==
  /\ state = "POLLING"
  /\ \E f \in Fetches :
       LET r == isSiteAvailable(f, SESSION_ID)
       IN /\ fetch' = f
          /\ result' = r
          /\ IF r.kind = "raise"
             THEN Crash(r.exc)
             ELSE IF r.kind = "None"
                  THEN Crash("TypeError")
                  ELSE /\ state' = "NOTIFYING"
                       /\ UNCHANGED << exitStatus, uncaught, endedIn >>
  /\ idx' = 1
  /\ sent' = <<>>
  /\ UNCHANGED << recipients, sender, printed, interrupted, x, delay_mins,
                  sleeping, slept >>

Poll ==
  /\ state = "POLLING"
  /\ \E f \in Fetches :
       LET r == isSiteAvailable(f, SESSION_ID)
       IN /\ fetch' = f
          /\ result' = r
          /\ IF r.kind = "raise"
             THEN Crash(r.exc)
             ELSE IF r.kind = "None"
                  THEN \* cannot unpack non-iterable NoneType object
                       Crash("TypeError")
                  ELSE /\ state' = IF r.available THEN "NOTIFYING"
                                                  ELSE "DELAYING"
                       /\ UNCHANGED << exitStatus, uncaught, endedIn >>
  /\ idx' = 1
  /\ sent' = <<>>
  /\ UNCHANGED << recipients, sender, printed, interrupted, x, delay_mins,
                  sleeping, slept >>

(***************************************************************************)
(* main, lines 251-253: one pass of the for loop over recipients.          *)
(***************************************************************************)
\* sendMessage: client.messages.create(body, from_, to)
sendMessage(msg, from, to) == [to |-> to, from |-> from, body |-> msg]

Notify ==
  /\ state = "NOTIFYING"
  /\ LET recipient == recipients[idx]
         m == FormatMessage(result.spots)
     IN IF ~m.ok
        THEN \* not enough arguments for format string
             /\ Crash("TypeError")
             /\ UNCHANGED << idx, sent >>
        ELSE \E delivered \in BOOLEAN :
               IF ~delivered
               THEN /\ Crash("TwilioRestException")
                    /\ UNCHANGED << idx, sent >>
               ELSE /\ sent' = Append(sent,
                         sendMessage(<<m.body, SESSION_ID>>, sender.list,
                                     recipient))
                    /\ idx' = idx + 1
                    /\ state' = IF idx = Len(recipients) THEN "DELAYING"
                                                         ELSE "NOTIFYING"
                    /\ UNCHANGED << exitStatus, uncaught, endedIn >>
  /\ UNCHANGED << recipients, sender, printed, interrupted, fetch, result, x,
                  delay_mins, sleeping, slept >>

(***************************************************************************)
(* main, lines 255-256, and delay_with_update_by_min.                      *)
(***************************************************************************)
GetDelay ==
  /\ state = "DELAYING"
  /\ ~sleeping
  /\ \E draw \in Draws :
       /\ x' = draw
       /\ delay_mins' = get_delay_mins(draw)
       /\ slept' = 0
       \* range(mins) is empty for mins <= 0
       /\ IF get_delay_mins(draw) > 0
          THEN /\ sleeping' = TRUE
               /\ UNCHANGED << state, fetch >>
          ELSE /\ sleeping' = FALSE
               /\ state' = "POLLING"
               /\ fetch' = NoFetch
  /\ UNCHANGED << recipients, sender, exitStatus, uncaught, printed,
                  interrupted, endedIn, result, idx, sent >>

\* the sleep loop with one increment too many
Sleep_one_more ==
  /\ state = "DELAYING"
  /\ sleeping
  /\ slept' = slept + 1
  /\ IF slept + 1 <= delay_mins
     THEN UNCHANGED << sleeping, state, fetch >>
     ELSE /\ sleeping' = FALSE
          /\ state' = "POLLING"
          /\ fetch' = NoFetch
  /\ UNCHANGED << recipients, sender, exitStatus, uncaught, printed,
                  interrupted, endedIn, result, idx, sent, x, delay_mins >>

\* time.sleep(60) runs to its end
Sleep ==
  /\ state = "DELAYING"
  /\ sleeping
  /\ slept' = slept + 1
  /\ IF slept + 1 < delay_mins
     THEN UNCHANGED << sleeping, state, fetch >>
     ELSE /\ sleeping' = FALSE
          /\ state' = "POLLING"
          /\ fetch' = NoFetch
  /\ UNCHANGED << recipients, sender, exitStatus, uncaught, printed,
                  interrupted, endedIn, result, idx, sent, x, delay_mins >>

(***************************************************************************)
(* main, lines 258-260: KeyboardInterrupt inside the loop.                 *)
(***************************************************************************)
\* the handler logs the interrupt and the loop goes round again
Interrupt_continue ==
  /\ state \in LoopStates
  /\ interrupted' = TRUE
  /\ state' = "POLLING"
  /\ sleeping' = FALSE
  /\ UNCHANGED << recipients, sender, exitStatus, uncaught, printed, endedIn,
                  fetch, result, idx, sent, x, delay_mins, slept >>

\* the handler ends the process with status 1
Interrupt_status1 ==
  /\ state \in LoopStates
  /\ interrupted' = TRUE
  /\ state' = "TERMINATED"
  /\ exitStatus' = 1
  /\ endedIn' = state
  /\ UNCHANGED << recipients, sender, uncaught, printed, fetch, result, idx,
                  sent, x, delay_mins, sleeping, slept >>

\* the interrupt is seen only once the sleep in progress has run out
Interrupt_after_sleep ==
  /\ state \in LoopStates
  /\ interrupted' = TRUE
  /\ Exit0
  /\ slept' = IF state = "DELAYING" /\ sleeping THEN slept + 1 ELSE slept
  /\ UNCHANGED << recipients, sender, uncaught, printed, fetch, result, idx,
                  sent, x, delay_mins, sleeping >>

Interrupt ==
  /\ state \in LoopStates
  /\ interrupted' = TRUE
  /\ Exit0
  /\ UNCHANGED << recipients, sender, uncaught, printed, fetch, result, idx,
                  sent, x, delay_mins, sleeping, slept >>

Next ==
  \/ Startup
  \/ InterruptStartup
  \/ Poll
  \/ Notify
  \/ GetDelay
  \/ Sleep
  \/ Interrupt

Spec == Init /\ [][Next]_vars

(***************************************************************************)
(* Properties.                                                             *)
(***************************************************************************)
\* the text of cell k of a row, as the scan reads it
CellText(row, k) == Strip(row[k])

\* rows whose session-id cell is the queried identifier
MatchRows(rows) ==
  { i \in 1..Len(rows) : Len(rows[i]) >= 1 /\ CellText(rows[i], 1) = SESSION_ID }

\* the process was interrupted before the loop began
StartupInterrupted == interrupted /\ endedIn = "STARTUP"

\* C1: in a cycle whose poll found the target session with seats left, the
\* process does not fail and, once the cycle is past NOTIFYING, every
\* recipient got exactly one message carrying the seat text and the link.
C1_Claim ==
  (result.kind = "tuple" /\ result.available /\ state # "NOTIFYING"
     /\ ~interrupted)
    => /\ uncaught = ""
       /\ result.spots.type = "str"
       /\ Len(sent) = Len(recipients)
       /\ \A i \in 1..Len(sent) :
            /\ sent[i].to = recipients[i]
            /\ \E j \in 1..Len(sent[i].body[1]) :
                 /\ sent[i].body[1][j].arg
                 /\ sent[i].body[1][j].text = result.spots.repr
            /\ \E j \in 1..Len(sent[i].body[1]) :
                 sent[i].body[1][j].lit = LINK

\* C2: a poll of a table with no row for the queried session hands back a
\* defined outcome and the process goes on to DELAYING instead of failing.
C2_Claim ==
  (fetch.kind = "page" /\ MatchRows(fetch.rows) = {} /\ ~interrupted)
    => /\ result.kind = "tuple"
       /\ uncaught = ""
       /\ state = "DELAYING"

\* C3: when the scan reaches the first row of the queried session, the
\* result is (0, False) if its seat cell is exactly "Full" and otherwise
\* (cell text as a str, True), whatever that text is.
C3_Theorem ==
  fetch.kind = "page" =>
    \A i \in MatchRows(fetch.rows) :
      ( /\ \A j \in 1..i : Len(fetch.rows[j]) >= 4
        /\ \A j \in 1..(i - 1) : j \notin MatchRows(fetch.rows) )
      => result = IF CellText(fetch.rows[i], 4) = T_Full
                  THEN Tuple(PyInt0, FALSE)
                  ELSE Tuple(PyStr(CellText(fetch.rows[i], 4)), TRUE)

\* a poll whose second row is the queried session with the seat cell "full"
C3_Witness ==
  /\ fetch.kind = "page"
  /\ Len(fetch.rows) = 2
  /\ fetch.rows[1][1] = OTHER_ID
  /\ Len(fetch.rows[1]) = 4
  /\ fetch.rows[2] = <<SESSION_ID, T_Date, T_Dash, T_full>>
  /\ result = Tuple(PyStr(T_full), TRUE)
  /\ state = "NOTIFYING"

\* C4: a fetch that fails with a network error gives (0, False), sends
\* nothing and leaves the loop running towards the next poll.
C4_Claim ==
  fetch.kind \in {"ConnectionResetError", "URLError"}
    => /\ result = Tuple(PyInt0, FALSE)
       /\ uncaught = ""
       /\ sent = <<>>
       /\ (~interrupted => state = "DELAYING")

\* C5: when validation of recipients + sender fails, the process prints the
\* message and exits 0 from startup, with no fetch and no send ever made.
C5_Theorem ==
  ( /\ state # "STARTUP"
    /\ ~StartupInterrupted
    /\ ~sender.none
    /\ \E i \in 1..Len(recipients \o sender.list) :
         ~ReMatch((recipients \o sender.list)[i]) )
    => /\ state = "TERMINATED"
       /\ endedIn = "STARTUP"
       /\ exitStatus = 0
       /\ printed
       /\ uncaught = ""
       /\ fetch = NoFetch
       /\ result = NoResult
       /\ sent = <<>>

\* every recipient is well formed and only the sender is not
C5_Witness ==
  /\ state = "TERMINATED"
  /\ printed
  /\ exitStatus = 0
  /\ \A i \in 1..Len(recipients) : ReMatch(recipients[i])
  /\ sender = SenderGiven(<<P_NoPlus>>)

\* C6: an interrupt in POLLING, NOTIFYING or DELAYING ends the process with
\* exit status 0 in that very step, which polls, sends and sleeps nothing,
\* and nothing happens once the process has ended.
C6_Theorem ==
  [][ /\ (state \in LoopStates /\ ~interrupted /\ interrupted')
        => /\ state' = "TERMINATED"
           /\ exitStatus' = 0
           /\ endedIn' = state
           /\ UNCHANGED << fetch, result, sent, idx, slept, delay_mins >>
      /\ (state = "TERMINATED" => UNCHANGED vars) ]_vars

\* interrupted between the poll and the first send
C6_Witness ==
  /\ interrupted
  /\ endedIn = "NOTIFYING"
  /\ state = "TERMINATED"
  /\ exitStatus = 0

\* C7 as stated: whenever an interrupt was delivered, the exit status is 0.
C7_Claim == interrupted => exitStatus = 0

\* C7 amended: an interrupt gives exit status 0 exactly when it arrives
\* while the loop runs; one that arrives during startup is not caught and
\* the exit status is not 0.
C7_Amended ==
  interrupted =>
    /\ state = "TERMINATED"
    /\ (endedIn \in LoopStates => exitStatus = 0 /\ uncaught = "")
    /\ (endedIn = "STARTUP"
          => exitStatus # 0 /\ uncaught = "KeyboardInterrupt")

\* interrupted in the loop before the first poll
C7_Witness ==
  /\ interrupted
  /\ endedIn = "POLLING"
  /\ result = NoResult
  /\ exitStatus = 0

\* C8: an interrupt during the sleep, with k >= 1 increments left, ends the
\* process with exit status 0 at once: the count of completed increments
\* stays as it is, nothing is fetched, and the ended process stays ended.
C8_Theorem ==
  [][ /\ ( /\ state = "DELAYING"
           /\ sleeping
           /\ delay_mins - slept >= 1
           /\ ~interrupted
           /\ interrupted' )
        => /\ state' = "TERMINATED"
           /\ exitStatus' = 0
           /\ slept' = slept
           /\ UNCHANGED << fetch, result >>
      /\ (endedIn = "DELAYING" /\ state = "TERMINATED"
            => UNCHANGED << slept, fetch, result, state >>) ]_vars

\* interrupted with increments still to sleep
C8_Witness ==
  /\ interrupted
  /\ endedIn = "DELAYING"
  /\ sleeping
  /\ delay_mins - slept >= 1
  /\ exitStatus = 0

\* "+" followed by 2 to 15 decimal digits, the first of them not 0
IsE164(t) ==
  /\ Len(t) \in 3..16
  /\ t[1] = "+"
  /\ \A i \in 2..Len(t) : t[i] \in Digit
  /\ t[2] # "0"

\* C9: validation lets the process into the loop exactly when every number
\* is "+" and 2 to 15 digits with no leading 0, and nothing else; any other
\* list is rejected with the ValueError message.
C9_Claim ==
  (state # "STARTUP" /\ ~StartupInterrupted /\ ~sender.none)
    => LET numbers == recipients \o sender.list
           wellFormed == \A i \in 1..Len(numbers) : IsE164(numbers[i])
       IN /\ wellFormed <=> ~printed
          /\ ~wellFormed <=> (state = "TERMINATED" /\ endedIn = "STARTUP")

\* the draw x/Scale cut down to an integer
Truncated(v) == CHOOSE n \in 0..MaxDraw : n * Scale <= v /\ v < (n + 1) * Scale

\* C10: the delay is never negative: 0 for a negative draw, the draw
\* truncated to an integer otherwise.
C10_Theorem ==
  /\ delay_mins \in Nat
  /\ delay_mins = IF x < 0 THEN 0 ELSE Truncated(x)

\* a draw of -1 or below was clamped
C10_Witness ==
  /\ x <= -Scale
  /\ delay_mins = 0
  /\ state = "POLLING"

C13_Claim ==
  (state = "TERMINATED" /\ endedIn \in LoopStates) => interrupted

\* C14: the step that leaves NOTIFYING, unless an interrupt or a delivery
\* failure ends the process, goes to DELAYING with one message per
\* recipient, in list order, all with the same body.
C14_Claim ==
  [][ ( /\ state = "NOTIFYING"
        /\ state' # "NOTIFYING"
        /\ ~interrupted'
        /\ uncaught' # "TwilioRestException" )
        => /\ state' = "DELAYING"
           /\ Len(sent') = Len(recipients)
           /\ \A i \in 1..Len(sent') :
                /\ sent'[i].to = recipients[i]
                /\ sent'[i].body = sent'[1].body ]_vars

\* C15: the delay is generated once per cycle, in DELAYING before any sleep;
\* a delay of 0 returns to POLLING at once, and otherwise the loop returns
\* to POLLING when exactly delay_mins increments have been slept.
C15_Theorem ==
  [][ /\ (state = "DELAYING" /\ state' = "POLLING")
        => slept' = delay_mins' /\ ~sleeping'
      /\ (x' # x \/ delay_mins' # delay_mins)
        => state = "DELAYING" /\ ~sleeping /\ fetch.kind # "unset"
      /\ (state = "DELAYING" /\ ~sleeping /\ ~interrupted')
        => /\ slept' = 0
           /\ delay_mins' = 0 => state' = "POLLING"
           /\ delay_mins' > 0 => state' = "DELAYING" /\ sleeping'
      /\ (slept' # slept /\ slept' # 0)
        => sleeping /\ slept' = slept + 1 /\ slept' <= delay_mins
      /\ (sleeping => slept < delay_mins) ]_vars

\* back in POLLING after a delay of two minutes
C15_Witness ==
  /\ state = "POLLING"
  /\ ~interrupted
  /\ delay_mins = 2
  /\ slept = 2

\* the recipients that got a message in this cycle
Notified == { sent[i].to : i \in 1..Len(sent) }

\* C16: every cycle whose poll found seats notifies all recipients and
\* leaves the loop running, so that the next such cycle notifies them again.
C16_Claim ==
  (result.kind = "tuple" /\ result.available /\ ~interrupted)
    => /\ state \in LoopStates
       /\ state # "NOTIFYING"
            => Notified = { recipients[i] : i \in 1..Len(recipients) }

\* the first row of the queried session, 0 if there is none
FirstMatch(rows) ==
  IF MatchRows(rows) = {} THEN 0
  ELSE CHOOSE i \in MatchRows(rows) : \A j \in MatchRows(rows) : i <= j

\* C17: the result of a poll is the result of the scan of the first row of
\* the queried session alone, whatever the other rows hold.
C17_Claim ==
  (fetch.kind = "page" /\ MatchRows(fetch.rows) # {})
    => result = ScanRows(<< fetch.rows[FirstMatch(fetch.rows)] >>, SESSION_ID)

====
